---------------------------- MODULE Spec2Model ----------------------------
(***************************************************************************)
(* A model of underworld/mesh/_mesh.py: the argument validation of the     *)
(* Cartesian mesh generators, the construction sequence of FeMesh and      *)
(* FeMesh_Cartesian (element type parsing, generator attachment, the dual  *)
(* mesh, the special sets), the vertex counts and the iteration of a mesh, *)
(* and the construction and compatibility check of FeMesh_IndexSet.        *)
(***************************************************************************)
EXTENDS Integers, Sequences, FiniteSets, TLC

VARIABLES
    pc,        \* position of the interpreter: which call is running, and where
    args,      \* the arguments of the running call (its frame)
    err,       \* the exception the last call raised, or NoErr
    gen,       \* a CartesianMeshGenerator built on its own
    stgDict,   \* what gen._add_to_stg_dict wrote, once it has run
    mesh,      \* the FeMesh / FeMesh_Cartesian under construction or built
    lookup,    \* the last operation on the built mesh and what it returned
    isets,     \* the FeMesh_IndexSet pair of a set operation, and its outcome
    comm       \* the processes of the run (fixed for a run)

vars == <<pc, args, err, gen, stgDict, mesh, lookup, isets, comm>>

-----------------------------------------------------------------------------
(* Bounds of the model *)

\* longest list or tuple passed as elementRes, minCoord, maxCoord, periodic
MaxLen == 3
\* largest element count per axis
MaxRes == 2
\* number of operations followed on a built mesh (specialSets lookups and
\* registrations, generator assignments, readings of the counts)
MaxOps == 3
\* most vertices of a mesh owned by the other processes
MaxOthers == 1

-----------------------------------------------------------------------------
(* Python values: a type tag and a value *)

None == [t |-> "None"]
PyInt(n) == [t |-> "int", v |-> n]
PyBool(b) == [t |-> "bool", v |-> b]
PyFloat(n) == [t |-> "float", v |-> n]
\* float('nan'): a float that compares False with everything
NaN == [t |-> "float", nan |-> TRUE]
PyStr(s) == [t |-> "str", v |-> s]
PyTuple(s) == [t |-> "tuple", v |-> s]
PyList(s) == [t |-> "list", v |-> s]

IsNaN(x) == "nan" \in DOMAIN x
\* isinstance(x,(list,tuple))
IsListOrTuple(x) == x.t \in {"list", "tuple"}
\* isinstance(x,int): bool is a subclass of int
IsInt(x) == x.t \in {"int", "bool"}
\* isinstance(x,(int,float))
IsIntOrFloat(x) == x.t \in {"int", "bool", "float"}
\* isinstance(x,bool)
IsBool(x) == x.t = "bool"
\* isinstance(x,str)
IsStr(x) == x.t = "str"

\* the number a Python int, bool or (non-NaN) float stands for
Num(x) == IF x.t = "bool" THEN (IF x.v THEN 1 ELSE 0) ELSE x.v
\* Python a < b and a >= b on numbers; both are False when either is NaN
PyLt(a, b) == ~IsNaN(a) /\ ~IsNaN(b) /\ Num(a) < Num(b)
PyGe(a, b) == ~IsNaN(a) /\ ~IsNaN(b) /\ Num(a) >= Num(b)

NoErr == [type |-> "", what |-> ""]
Raise(type, what) == [type |-> type, what |-> what]

\* all sequences over S of length lo..hi
SeqsOf(S, lo, hi) == UNION {[1..n -> S] : n \in lo..hi}

-----------------------------------------------------------------------------
(* CartesianMeshGenerator *)

\* BadResItem without the test item < 1
BadResItem_TypeOnly(item) == ~IsInt(item)

\* for item in elementRes: not isinstance(item,int) or item < 1
BadResItem(item) == ~IsInt(item) \/ PyLt(item, PyInt(1))

\* for ii in range(0,dim): minCoord[ii] >= maxCoord[ii]
MinNotBelowMax(minCoord, maxCoord, dim) ==
    \E ii \in 1..dim : PyGe(minCoord.v[ii], maxCoord.v[ii])

\* the length check made on 'periodic': the code compares len(periodic)
\* with len(periodic)
PeriodicLengthDiffers(periodic, elementRes) ==
    Len(periodic.v) # Len(periodic.v)

\* CartesianMeshGenerator.__init__: the exception raised, or NoErr
CartesianMeshGenerator_init(elementRes, minCoord, maxCoord, periodic) ==
    IF ~IsListOrTuple(elementRes) THEN Raise("TypeError", "elementRes")
    ELSE IF \E i \in 1..Len(elementRes.v) : BadResItem(elementRes.v[i])
        THEN Raise("TypeError", "elementRes")
    ELSE IF Len(elementRes.v) \notin {2, 3} THEN Raise("ValueError", "elementRes")
    ELSE IF ~IsListOrTuple(minCoord) THEN Raise("TypeError", "minCoord")
    ELSE IF \E i \in 1..Len(minCoord.v) : ~IsIntOrFloat(minCoord.v[i])
        THEN Raise("TypeError", "minCoord")
    ELSE IF Len(minCoord.v) # Len(elementRes.v) THEN Raise("ValueError", "minCoord")
    ELSE IF ~IsListOrTuple(maxCoord) THEN Raise("TypeError", "maxCoord")
    ELSE IF \E i \in 1..Len(maxCoord.v) : ~IsIntOrFloat(maxCoord.v[i])
        THEN Raise("TypeError", "maxCoord")
    ELSE IF Len(maxCoord.v) # Len(elementRes.v) THEN Raise("ValueError", "maxCoord")
    ELSE IF ~IsListOrTuple(periodic) THEN Raise("TypeError", "periodic")
    ELSE IF \E i \in 1..Len(periodic.v) : ~IsBool(periodic.v[i])
        THEN Raise("TypeError", "periodic")
    ELSE IF PeriodicLengthDiffers(periodic, elementRes)
        THEN Raise("ValueError", "periodic")
    ELSE IF MinNotBelowMax(minCoord, maxCoord, Len(elementRes.v))
        THEN Raise("ValueError", "minCoord")
    ELSE NoErr

\* the fields of a CartesianMeshGenerator whose __init__ returned
GeneratorFields(elementRes, minCoord, maxCoord, periodic) ==
    [elementRes |-> elementRes, minCoord |-> minCoord, maxCoord |-> maxCoord,
     dim |-> Len(elementRes.v), periodic |-> periodic]

NoGen == [dim |-> 0]

\* CartesianMeshGenerator._add_to_stg_dict: the entries written, or the
\* IndexError of self._periodic[k]
NoDict == [err |-> NoErr, written |-> FALSE]
CartesianMeshGenerator_add_to_stg_dict(g) ==
    IF Len(g.periodic.v) < 2 \/ (g.dim = 3 /\ Len(g.periodic.v) < 3)
    THEN [err |-> Raise("IndexError", "periodic"), written |-> FALSE]
    ELSE [err |-> NoErr, written |-> TRUE,
          size |-> g.elementRes, minCoord |-> g.minCoord,
          maxCoord |-> g.maxCoord, dim |-> g.dim,
          periodic_x |-> g.periodic.v[1], periodic_y |-> g.periodic.v[2],
          periodic_z |-> IF g.dim = 3 THEN g.periodic.v[3] ELSE None]

-----------------------------------------------------------------------------
(* Strings: sequences of one-character strings *)

UpperChar(c) ==
    CASE c = "q" -> "Q" [] c = "d" -> "D" [] c = "p" -> "P" [] c = "c" -> "C"
      [] c = "x" -> "X" [] c = "y" -> "Y" [] c = "z" -> "Z" [] OTHER -> c

\* str.upper()
Upper(s) == [i \in 1..Len(s) |-> UpperChar(s[i])]

\* sub in s
Contains(sub, s) ==
    \E i \in 0..(Len(s) - Len(sub)) : SubSeq(s, i + 1, i + Len(sub)) = sub

\* s.replace(sub, ''): every occurrence, left to right, without overlap
RECURSIVE Remove(_, _)
Remove(s, sub) ==
    IF Len(sub) = 0 \/ Len(s) < Len(sub) THEN s
    ELSE IF SubSeq(s, 1, Len(sub)) = sub
        THEN Remove(SubSeq(s, Len(sub) + 1, Len(s)), sub)
    ELSE <<s[1]>> \o Remove(Tail(s), sub)

\* s[0:2]
FirstTwo(s) == SubSeq(s, 1, IF Len(s) < 2 THEN Len(s) ELSE 2)

Q2 == <<"Q", "2">>
Q1 == <<"Q", "1">>
DQ1 == <<"D", "Q", "1">>
DPC1 == <<"D", "P", "C", "1">>
DQ0 == <<"D", "Q", "0">>

\* FeMesh._supportedElementTypes
supportedElementTypes == <<Q2, Q1, DQ1, DPC1, DQ0>>
SupportedSet == {supportedElementTypes[i] : i \in 1..Len(supportedElementTypes)}
\* _supportedElementTypes[0:2] and _supportedElementTypes[1:]
PrimaryTypes == {supportedElementTypes[i] : i \in 1..2}
SecondaryTypes == {supportedElementTypes[i] : i \in 2..Len(supportedElementTypes)}

\* FeMesh_Cartesian._meshGenerator
meshGenerator == <<"C2Generator", "CartesianGenerator">>

\* one pass of the loop of _strtolist over the supported type m ('mesh'):
\* the pair (elementType, mlist) after it
StrToListStep(m, st) ==
    LET elementType == st.elementType
        D == <<"D">> \o m
    IN  IF Contains(m, elementType) /\ Len(m) = Len(elementType)
        THEN [elementType |-> Remove(elementType, m), mlist |-> Append(st.mlist, m)]
        ELSE IF Contains(m, FirstTwo(elementType))
        THEN [elementType |-> Remove(elementType, m), mlist |-> Append(st.mlist, m)]
        ELSE IF Contains(D, elementType)
        THEN [elementType |-> Remove(elementType, D), mlist |-> Append(st.mlist, D)]
        ELSE IF Contains(m, elementType)
        THEN [elementType |-> Remove(elementType, m), mlist |-> Append(st.mlist, m)]
        ELSE st

RECURSIVE StrToListLoop(_, _)
StrToListLoop(k, st) ==
    IF k > Len(supportedElementTypes) THEN st
    ELSE StrToListLoop(k + 1, StrToListStep(Upper(supportedElementTypes[k]), st))

\* FeMesh_Cartesian._strtolist: the list of element types found in a string
strtolist(elementType) ==
    StrToListLoop(1, [elementType |-> Upper(elementType), mlist |-> <<>>]).mlist

-----------------------------------------------------------------------------
(* FeMesh *)

\* the mesh object itself, where it is passed as a generator or geometry mesh
SelfRef == [t |-> "self"]

\* isinstance(generator,MeshGenerator), for a mesh whose own class is
\* (selfIsGenerator) or is not a MeshGenerator
IsMeshGenerator(generator, selfIsGenerator) ==
    generator.t = "generator" \/ (generator.t = "self" /\ selfIsGenerator)

NoGenerator == [ref |-> "unset", target |-> None]

\* the generator setter without its isinstance check
generator_set_Unchecked(generator, selfIsGenerator) ==
    [err |-> NoErr,
     generator |-> [ref |-> IF generator = SelfRef THEN "weak" ELSE "strong",
                    target |-> generator],
     native |-> TRUE]

\* FeMesh.generator setter: the exception raised, or the reference kept
\* (weak when the mesh is its own generator) and the native call made
generator_set(generator, selfIsGenerator) ==
    IF ~IsMeshGenerator(generator, selfIsGenerator)
    THEN [err |-> Raise("TypeError", "generator"), generator |-> NoGenerator,
          native |-> FALSE]
    ELSE [err |-> NoErr,
          generator |-> [ref |-> IF generator = SelfRef THEN "weak" ELSE "strong",
                         target |-> generator],
          native |-> TRUE]

\* FeMesh.generator getter
generator_get(m) == m.generator.target

\* FeMesh_init with the generator looked at before the element type
FeMesh_init_GeneratorFirst(elementType, generator, selfIsGenerator) ==
    IF generator = None /\ ~selfIsGenerator
    THEN [err |-> Raise("ValueError", "generator"), elementType |-> None,
          generator |-> NoGenerator, native |-> FALSE]
    ELSE IF ~IsStr(elementType)
    THEN [err |-> Raise("TypeError", "elementType"), elementType |-> None,
          generator |-> NoGenerator, native |-> FALSE]
    ELSE IF Upper(elementType.v) \notin SupportedSet
    THEN [err |-> Raise("ValueError", "elementType"), elementType |-> None,
          generator |-> NoGenerator, native |-> FALSE]
    ELSE LET g == IF generator = None THEN SelfRef ELSE generator
             set == generator_set(g, selfIsGenerator)
         IN  [err |-> set.err, elementType |-> PyStr(Upper(elementType.v)),
              generator |-> set.generator, native |-> set.native]

\* FeMesh.__init__ up to the parent's initialiser
FeMesh_init(elementType, generator, selfIsGenerator) ==
    IF ~IsStr(elementType)
    THEN [err |-> Raise("TypeError", "elementType"), elementType |-> None,
          generator |-> NoGenerator, native |-> FALSE]
    ELSE IF Upper(elementType.v) \notin SupportedSet
    THEN [err |-> Raise("ValueError", "elementType"), elementType |-> None,
          generator |-> NoGenerator, native |-> FALSE]
    ELSE IF generator = None /\ ~selfIsGenerator
    THEN [err |-> Raise("ValueError", "generator"),
          elementType |-> PyStr(Upper(elementType.v)),
          generator |-> NoGenerator, native |-> FALSE]
    ELSE LET g == IF generator = None THEN SelfRef ELSE generator
             set == generator_set(g, selfIsGenerator)
         IN  [err |-> set.err, elementType |-> PyStr(Upper(elementType.v)),
              generator |-> set.generator, native |-> set.native]

\* no registry of special sets yet (hasattr(self,"_specialSets") is False)
NoRegistry == [exists |-> FALSE, id |-> 0, rules |-> <<>>]

\* FeMesh.specialSets: the registry, made on the first access
specialSets(m) ==
    IF ~m.specialSets.exists
    THEN [m EXCEPT !.specialSets = [exists |-> TRUE, id |-> m.registries + 1,
                                    rules |-> <<>>],
                   !.registries = m.registries + 1]
    ELSE m

\* self.specialSets[name] = rule: the property, then dict.__setitem__
specialSets_setitem(m, name, rule) ==
    LET m1 == specialSets(m)
    IN  [m1 EXCEPT !.specialSets.rules =
            [n \in DOMAIN m1.specialSets.rules \cup {name} |->
                IF n = name THEN rule ELSE m1.specialSets.rules[n]]]

\* what a rule returns when called with the mesh: an index set computed from
\* the mesh as it is now (its native generator)
CallRule(rule, m) ==
    [t |-> "IndexSet", rule |-> rule, generator |-> generator_get(m)]

\* __getitem__ of a plain dict: the stored item, not called
SpecialSetsDict_getitem_Plain(m, name) ==
    IF name \notin DOMAIN m.specialSets.rules
    THEN [err |-> Raise("KeyError", name), value |-> None, invoked |-> 0]
    ELSE [err |-> NoErr, value |-> PyStr(<<m.specialSets.rules[name]>>),
          invoked |-> 0]

\* _SpecialSetsDict.__getitem__: the stored item, called with the mesh
SpecialSetsDict_getitem(m, name) ==
    IF name \notin DOMAIN m.specialSets.rules
    THEN [err |-> Raise("KeyError", name), value |-> None, invoked |-> 0]
    ELSE [err |-> NoErr, value |-> CallRule(m.specialSets.rules[name], m),
          invoked |-> 1]

\* the level of the vertices in the native topology (StgDomain.MT_VERTEX)
MT_VERTEX == 0

\* the native mesh before its generator has run: nothing counted
NoTopology == [level \in {MT_VERTEX} |-> [global |-> 0, local |-> 0, shadow |-> 0]]

NoMesh ==
    [class |-> "", native |-> FALSE, gen |-> "", elementType |-> None,
     generator |-> NoGenerator, attached |-> FALSE, fields |-> NoGen,
     setup |-> FALSE, subMeshBuilt |-> FALSE, secondaryMesh |-> None,
     specialSets |-> NoRegistry, registries |-> 0,
     nativeSets |-> 0,  \* calls of Mesh_SetGenerator made for this mesh
     topology |-> NoTopology]

\* StgCompoundComponent.__new__: the object of the class with its native
\* components, the generator component being the one named in gen; it runs
\* before any __init__ (FeMesh.__init__ already uses self._cself)
StgCompoundComponent_new(class, g) ==
    [NoMesh EXCEPT !.class = class, !.native = TRUE, !.gen = g]

\* the native counts of a level: the entities of the whole mesh, those this
\* process owns, and those it owns together with its shadow copies of the
\* entities of other processes (its domain)
Mesh_GetGlobalSize(m, level) == m.topology[level].global
Mesh_GetLocalSize(m, level) == m.topology[level].local
Mesh_GetDomainSize(m, level) == m.topology[level].local + m.topology[level].shadow

\* FeMesh.nodesGlobal with the local size in place of the global one
nodesGlobal_Local(m) == Mesh_GetLocalSize(m, 0)

\* FeMesh.nodesLocal and FeMesh.nodesGlobal
nodesLocal(m) == Mesh_GetLocalSize(m, 0)
nodesGlobal(m) == Mesh_GetGlobalSize(m, 0)

-----------------------------------------------------------------------------
(* FeMesh_Cartesian *)

\* the element types as a list: _strtolist of a string, a list or tuple as given
ElementTypeList(elementType) ==
    IF IsStr(elementType)
    THEN LET mlist == strtolist(elementType.v)
         IN  [i \in 1..Len(mlist) |-> PyStr(mlist[i])]
    ELSE elementType.v

\* the check made on each item of the list in __new__
BadElType(elType) == ~IsStr(elType) \/ Upper(elType.v) \notin SupportedSet

\* the "_gen" entry of overruleDict: compared without upper()
OverruleGen(types) ==
    IF types[1].v = supportedElementTypes[1] THEN meshGenerator[1]
    ELSE IF types[1].v = supportedElementTypes[2] THEN meshGenerator[2]
    ELSE "None"  \* no entry: _objectsDict["_gen"] stays None

\* FeMesh_Cartesian.__new__: the exception raised, or the native generator
\* component chosen
FeMesh_Cartesian_new(elementType) ==
    IF elementType.t \notin {"str", "tuple", "list"}
    THEN [err |-> Raise("TypeError", "elementType"), gen |-> "None"]
    ELSE LET types == ElementTypeList(elementType)
             bad == {i \in 1..Len(types) : BadElType(types[i])}
             first == CHOOSE i \in bad : \A j \in bad : i <= j
         IN  IF Len(types) > 2
             THEN [err |-> Raise("ValueError", "elementType count"), gen |-> "None"]
             ELSE IF bad # {}
             THEN [err |-> Raise(IF IsStr(types[first]) THEN "ValueError"
                                 ELSE "TypeError", "elementType"),
                   gen |-> "None"]
             ELSE IF Len(types) = 0
             THEN [err |-> Raise("IndexError", "elementType"), gen |-> "None"]
             ELSE IF Upper(types[1].v) \notin PrimaryTypes
             THEN [err |-> Raise("ValueError", "primary elementType"), gen |-> "None"]
             ELSE IF Len(types) = 2 /\ Upper(types[2].v) \notin SecondaryTypes
             THEN [err |-> Raise("ValueError", "secondary elementType"), gen |-> "None"]
             ELSE [err |-> NoErr, gen |-> OverruleGen(types)]

\* periodic == None: two or three times False
DefaultPeriodic(periodic, elementRes) ==
    IF periodic # None THEN periodic
    ELSE IF IsListOrTuple(elementRes) /\ Len(elementRes.v) = 3
    THEN PyList(<<PyBool(FALSE), PyBool(FALSE), PyBool(FALSE)>>)
    ELSE PyList(<<PyBool(FALSE), PyBool(FALSE)>>)

\* a generator made by stenciling the cells of geometryMesh
TemplatedGenerator(class, geometryMesh, dim) ==
    [t |-> "generator", class |-> class, geometryMesh |-> geometryMesh, dim |-> dim]

\* LinearCartesianGenerator(elementRes, minCoord, maxCoord, periodic)
LinearCartesianGenerator(elementRes, minCoord, maxCoord, periodic) ==
    [t |-> "generator", class |-> "LinearCartesianGenerator",
     err |-> CartesianMeshGenerator_init(elementRes, minCoord, maxCoord, periodic),
     fields |-> GeneratorFields(elementRes, minCoord, maxCoord, periodic)]

\* SecondaryGenerator with the generators of DQ1 and DPC1 exchanged
SecondaryGenerator_Swapped(elType, m, a) ==
    IF Upper(elType) = supportedElementTypes[2]
    THEN LinearCartesianGenerator(a.elementRes, a.minCoord, a.maxCoord, a.periodic)
    ELSE IF Upper(elType) = supportedElementTypes[3]
    THEN TemplatedGenerator("LinearInnerGenerator", SelfRef, m.fields.dim)
    ELSE IF Upper(elType) = supportedElementTypes[4]
    THEN TemplatedGenerator("dQ1Generator", SelfRef, m.fields.dim)
    ELSE IF Upper(elType) = supportedElementTypes[5]
    THEN TemplatedGenerator("ConstantGenerator", SelfRef, m.fields.dim)
    ELSE [t |-> "raise", err |-> Raise("ValueError", "secondary elementType")]

\* genSecondary, by the upper-cased second element type
SecondaryGenerator(elType, m, a) ==
    IF Upper(elType) = supportedElementTypes[2]
    THEN LinearCartesianGenerator(a.elementRes, a.minCoord, a.maxCoord, a.periodic)
    ELSE IF Upper(elType) = supportedElementTypes[3]
    THEN TemplatedGenerator("dQ1Generator", SelfRef, m.fields.dim)
    ELSE IF Upper(elType) = supportedElementTypes[4]
    THEN TemplatedGenerator("LinearInnerGenerator", SelfRef, m.fields.dim)
    ELSE IF Upper(elType) = supportedElementTypes[5]
    THEN TemplatedGenerator("ConstantGenerator", SelfRef, m.fields.dim)
    ELSE [t |-> "raise", err |-> Raise("ValueError", "secondary elementType")]

\* CartesianSetNames with the walls of periodic axes removed (the lines the
\* source keeps commented out)
CartesianSetNames_PeriodicRemoved(dim, periodic) ==
    (IF periodic.v[1].v THEN <<>> ELSE <<"MaxI_VertexSet", "MinI_VertexSet">>)
    \o (IF periodic.v[2].v THEN <<>> ELSE <<"MaxJ_VertexSet", "MinJ_VertexSet">>)
    \o (IF dim = 3 /\ ~periodic.v[3].v THEN <<"MaxK_VertexSet", "MinK_VertexSet">>
        ELSE <<>>)
    \o <<"AllWalls", "Empty">>

\* the names registered at the end of FeMesh_Cartesian.__init__, in order
CartesianSetNames(dim, periodic) ==
    <<"MaxI_VertexSet", "MinI_VertexSet", "MaxJ_VertexSet", "MinJ_VertexSet">>
    \o (IF dim = 3 THEN <<"MaxK_VertexSet", "MinK_VertexSet">> ELSE <<>>)
    \o <<"AllWalls", "Empty">>

RECURSIVE RegisterAll(_, _, _)
RegisterAll(m, names, k) ==
    IF k > Len(names) THEN m
    ELSE RegisterAll(specialSets_setitem(m, names[k], names[k]), names, k + 1)

\* the vertices a native generator lays out along one axis: one more than
\* the elements (C2Generator, the quadratic one: one more than twice the
\* elements), the last vertex being the first again on a periodic axis
VertexGridSize(g, res, periodic) ==
    (IF g = meshGenerator[1] THEN 2 * res ELSE res) + (IF periodic THEN 0 ELSE 1)

RECURSIVE VertexGridProduct(_, _, _)
VertexGridProduct(g, fields, axis) ==
    IF axis > fields.dim THEN 1
    ELSE VertexGridSize(g, Num(fields.elementRes.v[axis]), fields.periodic.v[axis].v)
         * VertexGridProduct(g, fields, axis + 1)

\* a run on one process, and a run on several
OneProcess == [size |-> 1]
SeveralProcesses == [size |-> 2]

\* this process's share of a mesh: how many vertices the other processes own,
\* and how many of those it holds as shadow copies; one process owns all
Serial == [others |-> 0, shadowed |-> 0]
Decompositions(c) ==
    IF c.size = 1 THEN {Serial}
    ELSE {d \in [others : 0..MaxOthers, shadowed : 0..MaxOthers] :
             d.shadowed <= d.others}

\* the native generator fills the topology of the mesh when the mesh is built;
\* without a generator component nothing is counted
MeshGenerator_Generate(g, fields, d) ==
    LET global == IF g = meshGenerator[1] \/ g = meshGenerator[2]
                  THEN VertexGridProduct(g, fields, 1) ELSE 0
        others == IF d.others < global THEN d.others ELSE 0
        shadow == IF d.shadowed <= others THEN d.shadowed ELSE others
    IN  [level \in {MT_VERTEX} |->
            [global |-> global, local |-> global - others, shadow |-> shadow]]

-----------------------------------------------------------------------------
(* FeMesh_IndexSet *)

\* a FeMesh as the object of an index set: its native mesh _cself
MeshObject(k) == [t |-> "FeMesh", cself |-> k]

\* topologicalIndex in (0,1,2,3)
InTopologicalRange(topologicalIndex) ==
    IsIntOrFloat(topologicalIndex) /\ ~IsNaN(topologicalIndex)
    /\ Num(topologicalIndex) \in 0..3

\* FeMesh_IndexSet.__init__ with its two checks in the other order
FeMesh_IndexSet_init_ObjectFirst(object, topologicalIndex) ==
    IF object.t # "FeMesh"
    THEN [err |-> Raise("TypeError", "object")]
    ELSE IF ~InTopologicalRange(topologicalIndex)
    THEN [err |-> Raise("ValueError", "topologicalIndex")]
    ELSE [err |-> NoErr, topologicalIndex |-> topologicalIndex, object |-> object]

\* FeMesh_IndexSet.__init__ up to the parent's initialiser
FeMesh_IndexSet_init(object, topologicalIndex) ==
    IF ~InTopologicalRange(topologicalIndex)
    THEN [err |-> Raise("ValueError", "topologicalIndex")]
    ELSE IF object.t # "FeMesh"
    THEN [err |-> Raise("TypeError", "object")]
    ELSE [err |-> NoErr, topologicalIndex |-> topologicalIndex, object |-> object]

\* ObjectifiedIndexSet._checkCompatWith, the parent's check: whether it passes
\* is decided outside this file (parentOk)
Parent_checkCompatWith(a, b, parentOk) ==
    IF parentOk THEN NoErr ELSE Raise("TypeError", "parent")

\* _checkCompatWith without the comparison of the meshes
FeMesh_IndexSet_checkCompatWith_NoMesh(a, b, parentOk) ==
    IF Parent_checkCompatWith(a, b, parentOk) # NoErr
    THEN Parent_checkCompatWith(a, b, parentOk)
    ELSE IF Num(a.topologicalIndex) # Num(b.topologicalIndex)
    THEN Raise("TypeError", "topologicalIndex")
    ELSE NoErr

\* FeMesh_IndexSet._checkCompatWith
FeMesh_IndexSet_checkCompatWith(a, b, parentOk) ==
    IF Parent_checkCompatWith(a, b, parentOk) # NoErr
    THEN Parent_checkCompatWith(a, b, parentOk)
    ELSE IF Num(a.topologicalIndex) # Num(b.topologicalIndex)
    THEN Raise("TypeError", "topologicalIndex")
    ELSE IF a.object.cself # b.object.cself
    THEN Raise("TypeError", "mesh")
    ELSE NoErr

\* IndexSet.addAll: every index below the size of the set becomes a member;
\* the iterator of the set yields each member once
IndexSet_addAll(size) == 0..(size - 1)
IndexSet_iterate(members) == Cardinality(members)

\* FeMesh._get_iterator with the set sized by the local vertices
FeMesh_get_iterator_Local(m) ==
    LET size == Mesh_GetLocalSize(m, MT_VERTEX)
        iset == FeMesh_IndexSet_init(MeshObject(1), PyInt(0))
    IN  [err |-> iset.err,
         yielded |-> IF iset.err = NoErr THEN IndexSet_iterate(IndexSet_addAll(size))
                     ELSE 0]

\* FeMesh._get_iterator: the full index set of the vertices, sized by the
\* domain of the mesh, and the number of indices its iterator yields
FeMesh_get_iterator(m) ==
    LET size == Mesh_GetDomainSize(m, MT_VERTEX)
        iset == FeMesh_IndexSet_init(MeshObject(1), PyInt(0))
    IN  [err |-> iset.err,
         yielded |-> IF iset.err = NoErr THEN IndexSet_iterate(IndexSet_addAll(size))
                     ELSE 0]

-----------------------------------------------------------------------------
(* The inputs followed *)

XYZ == <<"X", "Y", "Z">>
Lower(s) ==
    [i \in 1..Len(s) |->
        CASE s[i] = "Q" -> "q" [] s[i] = "D" -> "d" [] s[i] = "P" -> "p"
          [] s[i] = "C" -> "c" [] s[i] = "X" -> "x" [] s[i] = "Y" -> "y"
          [] s[i] = "Z" -> "z" [] OTHER -> s[i]]
Slash(a, b) == a \o <<"/">> \o b

Tokens == SupportedSet \cup {XYZ}
\* 'A', 'A/B' in upper and lower case, 'Q1/dQ0', 'Q2/DQ1/DQ0' and ''
TypeStrings ==
    LET upper == Tokens \cup {Slash(a, b) : a \in Tokens, b \in Tokens}
    IN  upper \cup {Lower(u) : u \in upper}
        \cup {Slash(Q1, <<"d", "Q", "0">>), Slash(Slash(Q2, DQ1), DQ0), <<>>}
\* lists and tuples of element types
TypeItems == {PyStr(tk) : tk \in Tokens} \cup {PyStr(Lower(Q1)), PyStr(Lower(DQ0)), PyInt(1)}
TypeLists ==
    {PyList(l) : l \in SeqsOf(TypeItems, 0, 2)}
    \cup {PyTuple(<<PyStr(Q1), PyStr(DQ0)>>), PyList(<<PyStr(Q2), PyStr(Q1), PyStr(DQ0)>>)}
ElementTypes == {PyStr(x) : x \in TypeStrings} \cup TypeLists \cup {PyInt(1)}

\* elementRes, minCoord, maxCoord and periodic of a generator built on its own
GenRes ==
    {PyTuple([i \in 1..n |-> PyInt(MaxRes)]) : n \in 1..MaxLen}
    \cup {PyTuple(<<PyInt(0), PyInt(MaxRes)>>), PyTuple(<<PyInt(1), PyFloat(1)>>),
          PyList(<<PyBool(TRUE), PyInt(1)>>), PyInt(MaxRes)}
GenMin ==
    {PyTuple(l) : l \in SeqsOf({PyInt(0), PyInt(1)}, 1, MaxLen)}
    \cup {PyFloat(0), PyTuple(<<NaN, PyInt(0)>>), PyTuple(<<PyInt(0), PyStr(XYZ)>>)}
GenMax ==
    {PyTuple([i \in 1..n |-> PyInt(1)]) : n \in 1..MaxLen}
    \cup {PyTuple(<<PyFloat(2), PyFloat(2)>>), PyFloat(1), PyTuple(<<PyInt(1), NaN>>),
          PyTuple(<<PyInt(1), PyStr(XYZ)>>)}
GenPeriodic ==
    {PyList(l) : l \in SeqsOf({PyBool(TRUE), PyBool(FALSE)}, 0, MaxLen)}
    \cup {PyBool(FALSE), PyList(<<PyBool(FALSE), PyInt(0)>>)}

\* the same for a FeMesh_Cartesian
MeshRes ==
    {PyTuple(<<PyInt(MaxRes), PyInt(MaxRes)>>), PyTuple(<<PyInt(1), PyInt(MaxRes), PyInt(1)>>),
     PyTuple(<<PyInt(0), PyInt(MaxRes)>>), PyTuple(<<PyInt(MaxRes), PyInt(0 - 1), PyInt(1)>>),
     PyList(<<PyInt(MaxRes)>>),
     PyTuple(<<PyInt(16), PyInt(16)>>)}  \* the elementRes of the doctest of data
MeshMin == {PyTuple(<<PyFloat(0), PyFloat(0)>>), PyTuple(<<PyInt(0), PyInt(0), PyInt(0)>>)}
MeshMax == {PyTuple(<<PyFloat(1), PyFloat(1)>>), PyTuple(<<PyInt(1), PyInt(1), PyInt(1)>>)}
MeshPeriodic ==
    {None, PyList(<<PyBool(TRUE), PyBool(FALSE)>>), PyList(<<PyBool(TRUE), PyBool(TRUE)>>),
     PyList(<<PyBool(FALSE), PyBool(TRUE), PyBool(TRUE)>>), PyList(<<PyBool(TRUE)>>)}

\* generators passed to FeMesh and to the generator setter
SomeGenerators ==
    {LinearCartesianGenerator(PyTuple(<<PyInt(MaxRes), PyInt(MaxRes)>>),
                              PyTuple(<<PyFloat(0), PyFloat(0)>>),
                              PyTuple(<<PyFloat(1), PyFloat(1)>>),
                              PyList(<<PyBool(FALSE), PyBool(FALSE)>>)),
     TemplatedGenerator("ConstantGenerator", MeshObject(1), 2)}
GeneratorArgs == SomeGenerators \cup {None, SelfRef, PyStr(Q1)}

SetNames == {"MinJ_VertexSet", "Custom"}
Rules == {"MinJ_VertexSet", "MaxJ_VertexSet"}

TopologicalIndices ==
    {None, PyBool(TRUE), PyFloat(1)} \cup {PyInt(i) : i \in (0 - 1)..4}
SetObjects == {MeshObject(1), MeshObject(2), PyStr(Q1)}

-----------------------------------------------------------------------------
(* The state machine *)

NoArgs == [none |-> TRUE]
NoLookup == [op |-> "", name |-> "", err |-> NoErr, value |-> None,
             invocations |-> 0, nops |-> 0]
NoSets == [a |-> None, b |-> None, op |-> "", parentOk |-> TRUE, err |-> NoErr]

Init ==
    /\ pc = "idle"
    /\ args = NoArgs
    /\ err = NoErr
    /\ gen = NoGen
    /\ stgDict = NoDict
    /\ mesh = NoMesh
    /\ lookup = NoLookup
    /\ isets = NoSets
    /\ comm = OneProcess

\* the same on one process of a run that shares the mesh among several
InitDecomposed ==
    /\ pc = "idle"
    /\ args = NoArgs
    /\ err = NoErr
    /\ gen = NoGen
    /\ stgDict = NoDict
    /\ mesh = NoMesh
    /\ lookup = NoLookup
    /\ isets = NoSets
    /\ comm = SeveralProcesses

\* CartesianMeshGenerator(elementRes, minCoord, maxCoord, periodic), by way of
\* one of its concrete classes
NewCartesianMeshGenerator ==
    /\ pc = "idle"
    /\ \E elementRes \in GenRes, minCoord \in GenMin, maxCoord \in GenMax,
          periodic \in GenPeriodic :
        LET e == CartesianMeshGenerator_init(elementRes, minCoord, maxCoord, periodic)
        IN  /\ args' = [elementRes |-> elementRes, minCoord |-> minCoord,
                        maxCoord |-> maxCoord, periodic |-> periodic]
            /\ err' = e
            /\ gen' = IF e = NoErr
                      THEN GeneratorFields(elementRes, minCoord, maxCoord, periodic)
                      ELSE NoGen
            /\ pc' = IF e = NoErr THEN "generator" ELSE "raised"
    /\ UNCHANGED <<comm, stgDict, mesh, lookup, isets>>

\* the later step that writes the generator into the component dictionary
AddToStgDict ==
    /\ pc = "generator"
    /\ stgDict' = CartesianMeshGenerator_add_to_stg_dict(gen)
    /\ err' = stgDict'.err
    /\ pc' = IF stgDict'.err = NoErr THEN "generator built" ELSE "raised late"
    /\ UNCHANGED <<comm, args, gen, mesh, lookup, isets>>

\* FeMesh(elementType, generator): a mesh that is not itself a generator
NewFeMesh ==
    /\ pc = "idle"
    /\ \E elementType \in ElementTypes, generator \in GeneratorArgs :
        LET r == FeMesh_init(elementType, generator, FALSE)
        IN  /\ args' = [elementType |-> elementType, generator |-> generator]
            /\ err' = r.err
            /\ mesh' = [StgCompoundComponent_new("FeMesh", "None") EXCEPT
                                      !.elementType = r.elementType,
                                      !.generator = r.generator,
                                      !.attached = r.native,
                                      !.nativeSets = IF r.native THEN 1 ELSE 0]
            /\ pc' = IF r.err = NoErr THEN "done" ELSE "raised"
    /\ UNCHANGED <<comm, gen, stgDict, lookup, isets>>

\* FeMesh_Cartesian(...): __new__ checks the element types and creates the
\* object with its native components
CartesianNew ==
    /\ pc = "idle"
    /\ \E elementType \in ElementTypes :
        LET r == FeMesh_Cartesian_new(elementType)
        IN  \E elementRes \in MeshRes, minCoord \in MeshMin, maxCoord \in MeshMax,
               periodic \in MeshPeriodic :
            /\ args' = [elementType |-> elementType, elementRes |-> elementRes,
                        minCoord |-> minCoord, maxCoord |-> maxCoord,
                        periodic |-> periodic]
            /\ err' = r.err
            /\ mesh' = IF r.err = NoErr
                       THEN StgCompoundComponent_new("FeMesh_Cartesian", r.gen)
                       ELSE NoMesh
            /\ pc' = IF r.err = NoErr THEN "__init__" ELSE "raised"
    /\ UNCHANGED <<comm, gen, stgDict, lookup, isets>>

\* FeMesh_Cartesian.__init__ to FeMesh.__init__: the default of periodic, the
\* first element type, the mesh attached to itself as its generator
CartesianInitFeMesh ==
    /\ pc = "__init__"
    /\ LET periodic == DefaultPeriodic(args.periodic, args.elementRes)
           types == ElementTypeList(args.elementType)
           r == FeMesh_init(types[1], None, TRUE)
       IN  /\ args' = [args EXCEPT !.periodic = periodic]
           /\ err' = r.err
           /\ mesh' = [mesh EXCEPT !.elementType = r.elementType,
                                   !.generator = r.generator,
                                   !.attached = r.native,
                                   !.nativeSets = IF r.native THEN 1 ELSE 0]
           /\ pc' = IF r.err = NoErr THEN "generator __init__" ELSE "raised"
    /\ UNCHANGED <<comm, gen, stgDict, lookup, isets>>

\* FeMesh.__init__ calls on to CartesianMeshGenerator.__init__
CartesianInitGenerator ==
    /\ pc = "generator __init__"
    /\ LET e == CartesianMeshGenerator_init(args.elementRes, args.minCoord,
                                            args.maxCoord, args.periodic)
       IN  /\ err' = e
           /\ mesh' = IF e = NoErr
                      THEN [mesh EXCEPT !.fields =
                                GeneratorFields(args.elementRes, args.minCoord,
                                                args.maxCoord, args.periodic)]
                      ELSE mesh
           /\ pc' = IF e = NoErr THEN "_setup" ELSE "raised"
    /\ UNCHANGED <<comm, args, gen, stgDict, lookup, isets>>

\* self._setup(): the component dictionary is written by the _add_to_stg_dict
\* of the classes of the mesh, and the native mesh is built from it with the
\* share of the vertices that the decomposition gives this process
CartesianSetup ==
    /\ pc = "_setup"
    /\ LET d == CartesianMeshGenerator_add_to_stg_dict(mesh.fields)
       IN  /\ err' = d.err
           /\ IF d.err = NoErr
              THEN \E share \in Decompositions(comm) :
                       mesh' = [mesh EXCEPT !.setup = TRUE,
                                            !.topology =
                                                MeshGenerator_Generate(mesh.gen,
                                                                       mesh.fields, share)]
              ELSE mesh' = [mesh EXCEPT !.setup = FALSE]
           /\ pc' = IF d.err = NoErr THEN "secondary" ELSE "raised"
    /\ UNCHANGED <<comm, args, gen, stgDict, lookup, isets>>

\* the sub-mesh: None, or a FeMesh of the second type on its own generator
CartesianSecondary ==
    /\ pc = "secondary"
    /\ LET types == ElementTypeList(args.elementType)
           g == SecondaryGenerator(types[2].v, mesh, args)
           gerr == IF g.t = "raise" \/ g.class = "LinearCartesianGenerator"
                   THEN g.err ELSE NoErr
           r == FeMesh_init(PyStr(Upper(types[2].v)), g, FALSE)
       IN  IF Len(types) # 2
           THEN /\ mesh' = [mesh EXCEPT !.subMeshBuilt = TRUE, !.secondaryMesh = None]
                /\ err' = NoErr
                /\ pc' = "special sets"
           ELSE IF gerr # NoErr
           THEN /\ mesh' = [mesh EXCEPT !.subMeshBuilt = TRUE]
                /\ err' = gerr
                /\ pc' = "raised"
           ELSE /\ mesh' = [mesh EXCEPT !.subMeshBuilt = TRUE,
                               !.secondaryMesh =
                                   IF r.err = NoErr
                                   THEN [t |-> "FeMesh", elementType |-> r.elementType,
                                         generator |-> r.generator]
                                   ELSE None]
                /\ err' = r.err
                /\ pc' = IF r.err = NoErr THEN "special sets" ELSE "raised"
    /\ UNCHANGED <<comm, args, gen, stgDict, lookup, isets>>

\* the special sets are registered and the constructor returns
CartesianSpecialSets ==
    /\ pc = "special sets"
    /\ mesh' = RegisterAll(mesh, CartesianSetNames(mesh.fields.dim, mesh.fields.periodic), 1)
    /\ args' = NoArgs
    /\ pc' = "done"
    /\ UNCHANGED <<comm, err, gen, stgDict, lookup, isets>>

\* mesh.specialSets[name] = rule
RegisterSpecialSet ==
    /\ pc = "done"
    /\ lookup.nops < MaxOps
    /\ \E name \in SetNames, rule \in Rules :
        /\ mesh' = specialSets_setitem(mesh, name, rule)
        /\ lookup' = [lookup EXCEPT !.op = "register", !.name = name,
                                    !.err = NoErr, !.value = None,
                                    !.nops = lookup.nops + 1]
    /\ UNCHANGED <<comm, pc, args, err, gen, stgDict, isets>>

\* mesh.specialSets[name]
LookupSpecialSet ==
    /\ pc = "done"
    /\ lookup.nops < MaxOps
    /\ \E name \in SetNames \cup {"Empty"} :
        LET m == specialSets(mesh)
            r == SpecialSetsDict_getitem(m, name)
        IN  /\ mesh' = m
            /\ lookup' = [op |-> "lookup", name |-> name, err |-> r.err,
                          value |-> r.value,
                          invocations |-> lookup.invocations + r.invoked,
                          nops |-> lookup.nops + 1]
    /\ UNCHANGED <<comm, pc, args, err, gen, stgDict, isets>>

\* mesh.generator = generator
SetGenerator ==
    /\ pc = "done"
    /\ lookup.nops < MaxOps
    /\ \E generator \in GeneratorArgs :
        LET r == generator_set(generator, mesh.class = "FeMesh_Cartesian")
        IN  /\ mesh' = IF r.err = NoErr
                       THEN [mesh EXCEPT !.generator = r.generator,
                                         !.attached = r.native,
                                         !.nativeSets = mesh.nativeSets + 1]
                       ELSE mesh
            /\ lookup' = [lookup EXCEPT !.op = "generator", !.name = "",
                                        !.err = r.err, !.value = generator,
                                        !.nops = lookup.nops + 1]
    /\ UNCHANGED <<comm, pc, args, err, gen, stgDict, isets>>

\* mesh.nodesLocal
NodesLocal ==
    /\ pc = "done"
    /\ mesh.setup
    /\ lookup.nops < MaxOps
    /\ lookup' = [lookup EXCEPT !.op = "nodesLocal", !.name = "", !.err = NoErr,
                                !.value = PyInt(nodesLocal(mesh)),
                                !.nops = lookup.nops + 1]
    /\ UNCHANGED <<comm, pc, args, err, gen, stgDict, mesh, isets>>

\* mesh.nodesGlobal
NodesGlobal ==
    /\ pc = "done"
    /\ mesh.setup
    /\ lookup.nops < MaxOps
    /\ lookup' = [lookup EXCEPT !.op = "nodesGlobal", !.name = "", !.err = NoErr,
                                !.value = PyInt(nodesGlobal(mesh)),
                                !.nops = lookup.nops + 1]
    /\ UNCHANGED <<comm, pc, args, err, gen, stgDict, mesh, isets>>

\* len(list(mesh)): the indices that iterating the mesh yields
IterateMesh ==
    /\ pc = "done"
    /\ mesh.setup
    /\ lookup.nops < MaxOps
    /\ LET r == FeMesh_get_iterator(mesh)
       IN  lookup' = [lookup EXCEPT !.op = "iterate", !.name = "", !.err = r.err,
                                   !.value = PyInt(r.yielded),
                                   !.nops = lookup.nops + 1]
    /\ UNCHANGED <<comm, pc, args, err, gen, stgDict, mesh, isets>>

\* FeMesh_IndexSet(object, topologicalIndex), the first and the second set
NewIndexSet ==
    /\ pc \in {"idle", "one set"}
    /\ \E object \in SetObjects, topologicalIndex \in TopologicalIndices :
        LET r == FeMesh_IndexSet_init(object, topologicalIndex)
        IN  /\ args' = [object |-> object, topologicalIndex |-> topologicalIndex]
            /\ err' = r.err
            /\ isets' = IF r.err # NoErr THEN isets
                        ELSE IF pc = "idle" THEN [isets EXCEPT !.a = r]
                        ELSE [isets EXCEPT !.b = r]
            /\ pc' = IF r.err # NoErr THEN "raised"
                     ELSE IF pc = "idle" THEN "one set" ELSE "two sets"
    /\ UNCHANGED <<comm, gen, stgDict, mesh, lookup>>

\* a.union(b), a.intersect(b), a.difference(b): the compatibility check made
\* before the sets are combined
SetOperation ==
    /\ pc = "two sets"
    /\ \E op \in {"union", "intersect", "difference"}, parentOk \in BOOLEAN :
        LET e == FeMesh_IndexSet_checkCompatWith(isets.a, isets.b, parentOk)
        IN  /\ isets' = [isets EXCEPT !.op = op, !.parentOk = parentOk, !.err = e]
            /\ err' = e
            /\ pc' = IF e = NoErr THEN "combined" ELSE "raised"
    /\ UNCHANGED <<comm, args, gen, stgDict, mesh, lookup>>

Next ==
    \/ NewCartesianMeshGenerator
    \/ AddToStgDict
    \/ NewFeMesh
    \/ CartesianNew
    \/ CartesianInitFeMesh
    \/ CartesianInitGenerator
    \/ CartesianSetup
    \/ CartesianSecondary
    \/ CartesianSpecialSets
    \/ RegisterSpecialSet
    \/ LookupSpecialSet
    \/ SetGenerator
    \/ NodesLocal
    \/ NodesGlobal
    \/ IterateMesh
    \/ NewIndexSet
    \/ SetOperation

Spec == Init /\ [][Next]_vars

\* the construction of a FeMesh_Cartesian and the reading of its counts
NextMesh ==
    \/ CartesianNew
    \/ CartesianInitFeMesh
    \/ CartesianInitGenerator
    \/ CartesianSetup
    \/ CartesianSecondary
    \/ CartesianSpecialSets
    \/ NodesLocal
    \/ NodesGlobal
    \/ IterateMesh

SpecDecomposed == InitDecomposed /\ [][NextMesh]_vars

-----------------------------------------------------------------------------
(* Properties *)

\* which call the frame in args belongs to
GeneratorCall == "elementRes" \in DOMAIN args /\ "elementType" \notin DOMAIN args
CartesianCall == "elementRes" \in DOMAIN args /\ "elementType" \in DOMAIN args
FeMeshCall == "generator" \in DOMAIN args

\* elementRes holds only integers >= 1, its length is 2 or 3 and is dim and the
\* length of minCoord and maxCoord, and minCoord[i] < maxCoord[i] on every axis
ValidGeometry(g) ==
    /\ IsListOrTuple(g.elementRes)
    /\ \A i \in 1..Len(g.elementRes.v) :
          IsInt(g.elementRes.v[i]) /\ Num(g.elementRes.v[i]) >= 1
    /\ Len(g.elementRes.v) \in {2, 3}
    /\ g.dim = Len(g.elementRes.v)
    /\ IsListOrTuple(g.minCoord) /\ Len(g.minCoord.v) = g.dim
    /\ IsListOrTuple(g.maxCoord) /\ Len(g.maxCoord.v) = g.dim
    /\ \A i \in 1..g.dim :
          /\ IsIntOrFloat(g.minCoord.v[i]) /\ IsIntOrFloat(g.maxCoord.v[i])
          /\ PyLt(g.minCoord.v[i], g.maxCoord.v[i])

HasNaN(coord) == \E i \in 1..Len(coord.v) : IsNaN(coord.v[i])

\* C1: every CartesianMeshGenerator whose constructor returned has a valid
\* geometry (integer resolutions >= 1, 2 or 3 axes, lengths in agreement,
\* minCoord below maxCoord on every axis); an input that is not valid fails.
C1_ValidOrFails == gen # NoGen => ValidGeometry(gen)

\* The same with the coordinates that are not numbers left out: what the
\* checks of the constructor do establish.
C1_ValidUnlessNaN ==
    gen # NoGen /\ ~HasNaN(gen.minCoord) /\ ~HasNaN(gen.maxCoord) => ValidGeometry(gen)

\* the arguments are valid but for the length of the list of booleans 'periodic'
OnlyPeriodicLengthWrong(a) ==
    /\ IsListOrTuple(a.elementRes)
    /\ ValidGeometry(GeneratorFields(a.elementRes, a.minCoord, a.maxCoord, a.periodic))
    /\ IsListOrTuple(a.periodic)
    /\ \A i \in 1..Len(a.periodic.v) : IsBool(a.periodic.v[i])
    /\ Len(a.periodic.v) # Len(a.elementRes.v)

\* C2: a 'periodic' whose length differs from that of elementRes fails at
\* construction with an error naming 'periodic': it is not accepted and the
\* failure is not left to the step that writes periodic_x, periodic_y,
\* periodic_z.
C2_PeriodicLengthRejected ==
    GeneratorCall /\ OnlyPeriodicLengthWrong(args)
        => pc = "raised" /\ err = Raise("ValueError", "periodic")

\* elementRes is a list or tuple holding an integer below 1
NonPositiveRes(a) ==
    /\ IsListOrTuple(a.elementRes)
    /\ \E i \in 1..Len(a.elementRes.v) :
          IsInt(a.elementRes.v[i]) /\ Num(a.elementRes.v[i]) < 1

\* C3 (as stated): when FeMesh_Cartesian is constructed with a non-positive
\* entry in elementRes, the failure comes before any native component is
\* created and before the generator is attached to the mesh.
C3_FailsBeforeNativeState ==
    CartesianCall /\ NonPositiveRes(args) /\ pc = "raised"
        => ~mesh.native /\ ~mesh.attached

\* C3 (amended): with a non-positive entry in elementRes the construction of a
\* FeMesh_Cartesian never gets past CartesianMeshGenerator.__init__; when the
\* element types pass __new__ it fails there with the error on elementRes,
\* after __new__ created the native components and after FeMesh.__init__
\* attached the mesh to itself as generator, and before _setup, the secondary
\* mesh and the special sets.
C3_FailsInGeneratorInit ==
    /\ CartesianCall /\ NonPositiveRes(args) =>
          /\ pc \in {"__init__", "generator __init__", "raised"}
          /\ pc = "raised" /\ mesh.class = "FeMesh_Cartesian" =>
                /\ err = Raise("TypeError", "elementRes")
                /\ mesh.native /\ mesh.attached
                /\ mesh.generator = [ref |-> "weak", target |-> SelfRef]
                /\ ~mesh.setup /\ ~mesh.subMeshBuilt /\ ~mesh.specialSets.exists
    /\ mesh.class = "FeMesh_Cartesian" /\ mesh.fields # NoGen =>
          ~NonPositiveRes(mesh.fields)

C3_Witness ==
    /\ CartesianCall /\ NonPositiveRes(args) /\ pc = "raised"
    /\ err = Raise("TypeError", "elementRes") /\ mesh.native /\ mesh.attached

\* C4: FeMesh(elementType, generator) fails with the error on elementType when
\* the upper-cased elementType is not a supported type, whatever the generator;
\* it fails with the error on the missing generator when the type is supported,
\* no generator is given and the mesh is no MeshGenerator; a mesh that was
\* built holds the upper-cased elementType, which is a supported type.
C4_FeMeshInit ==
    /\ FeMeshCall /\ IsStr(args.elementType) =>
          /\ Upper(args.elementType.v) \notin SupportedSet =>
                pc = "raised" /\ err = Raise("ValueError", "elementType")
          /\ Upper(args.elementType.v) \in SupportedSet /\ args.generator = None =>
                pc = "raised" /\ err = Raise("ValueError", "generator")
          /\ pc = "done" =>
                mesh.elementType = PyStr(Upper(args.elementType.v))
    /\ pc = "done" => IsStr(mesh.elementType) /\ mesh.elementType.v \in SupportedSet

C4_Witness ==
    /\ FeMeshCall /\ IsStr(args.elementType) /\ args.generator = None
    /\ Upper(args.elementType.v) \notin SupportedSet
    /\ pc = "raised" /\ err = Raise("ValueError", "elementType")

\* s.split('/')
RECURSIVE SplitSlash(_)
SplitSlash(s) ==
    IF \A i \in 1..Len(s) : s[i] # "/" THEN <<s>>
    ELSE LET k == CHOOSE i \in 1..Len(s) :
                    s[i] = "/" /\ \A j \in 1..(i - 1) : s[j] # "/"
         IN  <<SubSeq(s, 1, k - 1)>> \o SplitSlash(SubSeq(s, k + 1, Len(s)))

\* the string 'A/B', in any letter case, with A in Q2, Q1 and B in Q1, DQ1,
\* DPC1, DQ0
IsPairString(elementType) ==
    /\ IsStr(elementType)
    /\ Len(SplitSlash(Upper(elementType.v))) = 2
    /\ SplitSlash(Upper(elementType.v))[1] \in PrimaryTypes
    /\ SplitSlash(Upper(elementType.v))[2] \in SecondaryTypes

\* C5: for an elementType 'A/B' the primary mesh has type A and the sub-mesh
\* type B.
C5_PairInOrder ==
    CartesianCall /\ IsPairString(args.elementType) /\ pc = "special sets" =>
        /\ mesh.elementType = PyStr(SplitSlash(Upper(args.elementType.v))[1])
        /\ mesh.secondaryMesh # None
        /\ mesh.secondaryMesh.elementType =
              PyStr(SplitSlash(Upper(args.elementType.v))[2])

\* the class of the templated generator of a discontinuous second type
TemplatedClass(elType) ==
    CASE elType = DQ1 -> "dQ1Generator"
      [] elType = DPC1 -> "LinearInnerGenerator"
      [] elType = DQ0 -> "ConstantGenerator"
      [] OTHER -> ""

\* C6: for an elementType given as a list or tuple, once the sub-mesh step has
\* run: subMesh is None for one type; for two it is a FeMesh of the second
\* type, on a LinearCartesianGenerator of its own with the geometry of the
\* primary mesh when the second type is Q1, and otherwise on the templated
\* generator of that type whose geometry mesh is the primary mesh.
C6_SubMesh ==
    CartesianCall /\ IsListOrTuple(args.elementType) /\ pc = "special sets" =>
        LET types == args.elementType.v
            sub == mesh.secondaryMesh
        IN  /\ Len(types) = 1 => sub = None
            /\ Len(types) = 2 =>
                  /\ sub # None
                  /\ sub.elementType = PyStr(Upper(types[2].v))
                  /\ sub.generator.ref = "strong"
                  /\ sub.generator.target # SelfRef
                  /\ Upper(types[2].v) = Q1 =>
                        /\ sub.generator.target.class = "LinearCartesianGenerator"
                        /\ sub.generator.target.fields = mesh.fields
                  /\ Upper(types[2].v) # Q1 =>
                        /\ sub.generator.target.class = TemplatedClass(Upper(types[2].v))
                        /\ sub.generator.target.geometryMesh = SelfRef

C6_Witness ==
    /\ CartesianCall /\ IsListOrTuple(args.elementType) /\ pc = "special sets"
    /\ Len(args.elementType.v) = 2 /\ mesh.secondaryMesh # None
    /\ mesh.secondaryMesh.elementType = PyStr(DQ1)
    /\ mesh.secondaryMesh.generator.target.class = "dQ1Generator"

\* a string one of whose '/'-separated tokens is no supported element type
HasUnknownToken(elementType) ==
    /\ IsStr(elementType)
    /\ \E i \in 1..Len(SplitSlash(Upper(elementType.v))) :
          SplitSlash(Upper(elementType.v))[i] \notin SupportedSet

\* C7: an elementType string with an unknown token is rejected by
\* FeMesh_Cartesian: the construction fails in __new__.
C7_UnknownTokenRejected ==
    CartesianCall /\ HasUnknownToken(args.elementType) => pc = "raised"

\* a set operation has been tried on the two index sets
Combined == isets.op # ""
SameLevel == Num(isets.a.topologicalIndex) = Num(isets.b.topologicalIndex)
SameMesh == isets.a.object = isets.b.object

\* C8: a union, intersection or difference of two FeMesh_IndexSets fails when
\* their topological indices differ or their meshes differ; with both equal
\* the check of FeMesh_IndexSet raises nothing; the parent's check comes
\* first, then the topological index, then the mesh.
C8_CompatCheck ==
    Combined =>
        /\ ~SameLevel \/ ~SameMesh => isets.err # NoErr /\ pc = "raised"
        /\ SameLevel /\ SameMesh => isets.err.what \notin {"topologicalIndex", "mesh"}
        /\ SameLevel /\ SameMesh /\ isets.parentOk => isets.err = NoErr /\ pc = "combined"
        /\ ~isets.parentOk => isets.err = Raise("TypeError", "parent")
        /\ isets.parentOk /\ ~SameLevel => isets.err = Raise("TypeError", "topologicalIndex")
        /\ isets.parentOk /\ SameLevel /\ ~SameMesh => isets.err = Raise("TypeError", "mesh")

C8_Witness ==
    /\ Combined /\ isets.parentOk /\ SameLevel /\ ~SameMesh
    /\ isets.err = Raise("TypeError", "mesh") /\ pc = "raised"

\* C9: when the constructor of FeMesh_Cartesian returns, the names registered
\* in specialSets are the four I and J walls, AllWalls and Empty, and for a 3D
\* mesh the two K walls as well, whatever the periodic flags.
C9_RegisteredNames ==
    pc = "done" /\ mesh.class = "FeMesh_Cartesian" /\ lookup.nops = 0 =>
        DOMAIN mesh.specialSets.rules =
            {"MaxI_VertexSet", "MinI_VertexSet", "MaxJ_VertexSet", "MinJ_VertexSet",
             "AllWalls", "Empty"}
            \cup (IF mesh.fields.dim = 3 THEN {"MaxK_VertexSet", "MinK_VertexSet"}
                  ELSE {})

C9_Witness ==
    /\ pc = "done" /\ mesh.class = "FeMesh_Cartesian" /\ lookup.nops = 0
    /\ mesh.fields.dim = 3 /\ mesh.fields.periodic.v[3] = PyBool(TRUE)
    /\ "MaxK_VertexSet" \in DOMAIN mesh.specialSets.rules

\* one step of the session on a built mesh, as C10 describes it
C10_Step ==
    /\ lookup'.nops = lookup.nops + 1 /\ lookup'.op = "register" =>
          /\ lookup'.invocations = lookup.invocations
          /\ lookup'.name \in DOMAIN mesh'.specialSets.rules
    /\ lookup'.nops = lookup.nops + 1 /\ lookup'.op = "lookup" /\ lookup'.err = NoErr =>
          /\ lookup'.invocations = lookup.invocations + 1
          /\ lookup'.value = [t |-> "IndexSet",
                              rule |-> mesh'.specialSets.rules[lookup'.name],
                              generator |-> mesh'.generator.target]
    /\ lookup'.nops = lookup.nops + 1 /\ lookup'.op \in {"register", "lookup"} =>
          mesh'.specialSets.exists
    /\ mesh.specialSets.exists =>
          /\ mesh'.specialSets.exists
          /\ mesh'.specialSets.id = mesh.specialSets.id
          /\ mesh'.registries = mesh.registries

\* C10: registering a rule invokes nothing; every lookup invokes the rule
\* registered under the name with the mesh as it is at that moment (its
\* generator after a reattachment), each time anew; the registry is made on
\* the first access and is the same one on every later access.
C10_LookupAtCallTime == [][C10_Step]_vars

\* a rule registered, the generator replaced, the rule looked up
C10_Witness ==
    /\ pc = "done" /\ mesh.class = "FeMesh_Cartesian"
    /\ lookup.op = "lookup" /\ lookup.name = "Custom"
    /\ lookup.err = NoErr /\ lookup.nops = 3 /\ lookup.invocations = 1
    /\ mesh.generator.ref = "strong"
    /\ lookup.value.generator = mesh.generator.target


\* a step that is an assignment mesh.generator = lookup'.value
C13_Assigned == lookup'.op = "generator" /\ lookup'.nops = lookup.nops + 1

\* isinstance(g,MeshGenerator) for the mesh as it is: a generator object, or
\* the mesh itself when its class is a MeshGenerator
C13_IsGenerator(g) ==
    g.t = "generator" \/ (g = SelfRef /\ mesh.class = "FeMesh_Cartesian")

C13_Step ==
    /\ pc' = "done" => generator_get(mesh') # None
    /\ C13_Assigned =>
          LET g == lookup'.value
          IN  IF C13_IsGenerator(g)
              THEN /\ lookup'.err = NoErr
                   /\ generator_get(mesh') = g
                   /\ mesh'.generator.ref = (IF g = SelfRef THEN "weak" ELSE "strong")
                   /\ mesh'.nativeSets = mesh.nativeSets + 1
              ELSE /\ lookup'.err.type = "TypeError"
                   /\ mesh'.generator = mesh.generator
                   /\ mesh'.nativeSets = mesh.nativeSets
    /\ (pc = "done" /\ ~C13_Assigned) => mesh'.generator = mesh.generator

\* C13: on a built mesh, mesh.generator is never None and is the generator
\* most recently assigned with success (the mesh itself by a weak reference,
\* any other generator by a strong one); assigning an object that is not a
\* MeshGenerator raises TypeError, leaves the generator as it was and makes
\* no call of Mesh_SetGenerator.
C13_GeneratorAssignment == [][C13_Step]_vars

\* a Cartesian mesh (its own generator) was given another generator, and a
\* later assignment of a non-generator failed
C13_Witness ==
    /\ pc = "done"
    /\ mesh.class = "FeMesh_Cartesian"
    /\ lookup.op = "generator"
    /\ lookup.err.type = "TypeError"
    /\ mesh.generator.ref = "strong"
    /\ mesh.nativeSets >= 2

\* a step that is a call FeMesh_IndexSet(args'.object, args'.topologicalIndex)
C14_Construction ==
    pc \in {"idle", "one set"} /\ pc' # pc /\ "topologicalIndex" \in DOMAIN args'

\* the value is one of 0, 1, 2, 3 (as Python compares values: True is 1 and
\* 1.0 is 1; None is none of them)
C14_InRange(ti) ==
    \E k \in 0..3 : \/ ti = PyInt(k)
                    \/ ti = PyFloat(k)
                    \/ ti = PyBool(TRUE) /\ k = 1
                    \/ ti = PyBool(FALSE) /\ k = 0

C14_Bound(s) ==
    s # None => C14_InRange(s.topologicalIndex) /\ s.object.t = "FeMesh"

C14_Step ==
    /\ C14_Construction =>
          LET ti == args'.topologicalIndex
              ob == args'.object
              new == IF pc = "idle" THEN isets'.a ELSE isets'.b
          IN  IF ~C14_InRange(ti)
              THEN err'.type = "ValueError" /\ isets' = isets
              ELSE IF ob.t # "FeMesh"
              THEN err'.type = "TypeError" /\ isets' = isets
              ELSE err' = NoErr /\ new.topologicalIndex = ti /\ new.object = ob
    /\ C14_Bound(isets'.a) /\ C14_Bound(isets'.b)
    /\ isets.a # None => isets'.a = isets.a
    /\ isets.b # None => isets'.b = isets.b

\* C14: a FeMesh_IndexSet that is constructed has a topologicalIndex among
\* 0, 1, 2, 3 and a FeMesh as its object, and keeps both; a topologicalIndex
\* outside 0..3 (None included) raises ValueError whatever the object is
\* (that check is the first), an object that is not a FeMesh raises TypeError,
\* and no later operation changes the topologicalIndex or the object.
C14_IndexSetConstruction == [][C14_Step]_vars

\* two sets were constructed and combined, the first one at level 3
C14_Witness ==
    /\ pc = "combined"
    /\ isets.a # None /\ isets.b # None
    /\ isets.a.topologicalIndex = PyInt(3)
    /\ isets.a.object = MeshObject(2)

\* C15: an elementType that __new__ accepts has one or two types, the first
\* Q2 or Q1 and the second (if any) Q1, DQ1, DPC1 or DQ0 in any letter case,
\* and the native generator component chosen for the object is C2Generator
\* for Q2 and CartesianGenerator for Q1, never left unset.
C15_GeneratorSelected ==
    (CartesianCall /\ pc = "__init__") =>
        LET types == ElementTypeList(args.elementType)
        IN  /\ Len(types) \in 1..2
            /\ Upper(types[1].v) \in {Q2, Q1}
            /\ Len(types) = 2 => Upper(types[2].v) \in {Q1, DQ1, DPC1, DQ0}
            /\ mesh.gen = (IF Upper(types[1].v) = Q2 THEN meshGenerator[1]
                           ELSE meshGenerator[2])

\* len(list(mesh)) was read
Iterated == lookup.op = "iterate"
\* the vertices of other processes that this process holds as shadow copies
ShadowVertices == mesh.topology[MT_VERTEX].shadow

\* C11: iterating a mesh yields as many indices as the mesh has local
\* vertices (nodesLocal), whatever share of the mesh the process holds,
\* shadow vertices included.
C11_IterationIsLocal ==
    Iterated => lookup.err = NoErr /\ Num(lookup.value) = nodesLocal(mesh)

\* C11, amended: iterating a mesh yields as many indices as the domain of the
\* process has vertices, its local vertices and its shadow vertices together;
\* that is nodesLocal exactly when the process holds no shadow vertex.
C11_IterationIsDomain ==
    Iterated =>
        /\ lookup.err = NoErr
        /\ Num(lookup.value) = nodesLocal(mesh) + ShadowVertices
        /\ (Num(lookup.value) = nodesLocal(mesh)) <=> (ShadowVertices = 0)

\* a mesh of 2 x 2 linear elements on a process that owns 8 of its 9 vertices
\* and shadows the ninth was iterated
C11_Witness ==
    /\ Iterated
    /\ mesh.gen = meshGenerator[2]
    /\ mesh.fields.elementRes = PyTuple(<<PyInt(2), PyInt(2)>>)
    /\ nodesLocal(mesh) = 8
    /\ ShadowVertices = 1
    /\ lookup.value = PyInt(9)

\* the product over the axes of factor * elementRes[axis], plus one on an
\* axis that is not periodic
RECURSIVE AxisProduct(_, _, _)
AxisProduct(fields, factor, axis) ==
    IF axis > Len(fields.elementRes.v) THEN 1
    ELSE (factor * Num(fields.elementRes.v[axis])
          + (IF fields.periodic.v[axis] = PyBool(TRUE) THEN 0 ELSE 1))
         * AxisProduct(fields, factor, axis + 1)

\* mesh.nodesGlobal was read on a mesh that has a native generator
GlobalRead == lookup.op = "nodesGlobal" /\ mesh.gen # "None"
NonPeriodic(fields) ==
    \A axis \in 1..Len(fields.elementRes.v) : fields.periodic.v[axis] = PyBool(FALSE)

=============================================================================
